---- MODULE Spec2Model ----
(***************************************************************************)
(* Model of the INIT package manager (initpkg.py): the persisted state     *)
(* file, the index cache, the package directories and the install /        *)
(* uninstall / create / install-local / query / update commands of         *)
(* PackageManager.  Each command runs in its own process (main builds a    *)
(* fresh PackageManager, which loads the state file, then dispatches one   *)
(* command).  install is one step per artifact fetch (its call stack is    *)
(* explicit); the other commands are single atomic steps.                  *)
(***************************************************************************)
EXTENDS Integers, Sequences, FiniteSets, TLC

\* ------------------------------------------------------------- bounds
\* longest list of names given to install / uninstall on the command line
MaxReq == 2
\* number of commands (process invocations) in one behaviour
MaxCmds == 2
\* deepest _install_single recursion the model follows
MaxDepth == 4

\* ------------------------------------------------------------- inputs
Names == {"A", "B", "C"}
Procs == {"p1", "p2"}

GITHUB_REPO == "https://raw.githubusercontent.com/gopu-inc/initlang-packages/main"
\* a repository URL a user may have written into packages.json
MirrorRepo == "https://mirror.example/initlang"

\* The remote index.json payloads the repository may serve.
\* Idx1: A -> B, C ; B -> A (a dependency cycle) ; C a leaf.
Idx1 ==
    [A |-> [version |-> "1.0.0", dependencies |-> <<"B", "C">>],
     B |-> [version |-> "1.0.0", dependencies |-> <<"A">>],
     C |-> [version |-> "1.0.0", dependencies |-> <<>>]]
\* Idx2: A at a newer version, without a dependencies key; B depending on
\* C, which is absent from the index.
Idx2 ==
    [A |-> [version |-> "2.0.0"],
     B |-> [version |-> "0.9.0", dependencies |-> <<"C">>]]
IdxEmpty == <<>>
Indexes == {Idx1, Idx2, IdxEmpty}

\* Local source trees a user may pass to install-local: the tree named C
\* holds main.init and one more file, the tree named B has no main.init.
LocalTrees ==
    [C |-> ("main.init" :> <<"local", "C">>) @@ ("extra.txt" :> <<"local", "extra">>),
     B |-> ("readme.txt" :> <<"local", "readme">>)]

\* the lists of distinct names a command line may give
Requests ==
    UNION {{s \in [1..k -> Names] : \A i, j \in 1..k : i # j => s[i] # s[j]} :
           k \in 1..MaxReq}

\* ------------------------------------------------------------- state
VARIABLES
    cfgFile,    \* CONFIG_FILE on disk
    cacheFile,  \* CACHE_DIR / "index.json" on disk
    dirs,       \* PACKAGES_DIR / <name> on disk, per name
    live,       \* the processes that may run
    left,       \* commands that may still be started
    pc,         \* per process: "idle" or "installing"
    config,     \* per process: self.config
    index,      \* per process: the index object of the running install
    queue,      \* per process: the requested names not yet started
    stack,      \* per process: the _install_single call stack
    run         \* per process: record of the current / last command

vars == <<cfgFile, cacheFile, dirs, live, left,
          pc, config, index, queue, stack, run>>

disk == <<cfgFile, cacheFile, dirs>>

\* ------------------------------------------------------------- helpers
\* dict.get(key, default)
Get(d, k, def) == IF k \in DOMAIN d THEN d[k] ELSE def

Absent == [kind |-> "absent"]
\* a file whose content json.load rejects
Corrupt == [kind |-> "corrupt"]
\* a file as json.dump(obj, f, indent=2) writes it
JsonFile(data) == [kind |-> "json", data |-> data, layout |-> "indent2"]
\* a well-formed JSON object in a file that a user wrote by hand
UserFile(data) == [kind |-> "json", data |-> data, layout |-> "user"]

NoDir == [exists |-> FALSE, files |-> <<>>]
\* Path.mkdir(exist_ok=True)
Mkdir(d) == IF d.exists THEN d ELSE [exists |-> TRUE, files |-> <<>>]
\* open(path, 'w') ; write
WriteFile(d, fname, content) ==
    [exists |-> TRUE, files |-> (fname :> content) @@ d.files]

Installed(p) == config[p]["installed_packages"]

Remove(f, n) == [m \in (DOMAIN f) \ {n} |-> f[m]]

RECURSIVE SumOver(_, _)
SumOver(f, S) ==
    IF S = {} THEN 0
    ELSE LET n == CHOOSE m \in S : TRUE IN f[n] + SumOver(f, S \ {n})

\* ------------------------------------------------------------- load / save
DefaultConfig == [repository |-> GITHUB_REPO, installed_packages |-> <<>>]

\* a load_config that reads only the keys it knows
load_known_keys(file) ==
    IF file.kind = "json"
    THEN [k \in DOMAIN DefaultConfig |-> Get(file.data, k, DefaultConfig[k])]
    ELSE DefaultConfig

\* a load_config that forgets the repository when the file does not parse
load_or_blank(file) ==
    IF file.kind = "json" THEN file.data @@ DefaultConfig
    ELSE IF file.kind = "absent" THEN DefaultConfig
    ELSE [repository |-> "", installed_packages |-> <<>>]

\* load_config: defaults, updated with the file's top-level keys when the
\* file exists and parses.
load_config(file) ==
    IF file.kind = "json" THEN file.data @@ DefaultConfig ELSE DefaultConfig

\* a save_config that writes an empty state
save_defaults(cfg) == JsonFile(DefaultConfig)

\* save_config: the whole in-memory config overwrites the file.
save_config(cfg) == JsonFile(cfg)

\* ------------------------------------------------------------- index cache
IndexUrl == <<GITHUB_REPO, "index.json">>

\* What urlopen(".../index.json") may do: raise, or return one of the
\* payloads.  The outcome is an input of a command only when the command
\* gets as far as the retrieval, that is when no cache file exists.
NetDown == [ok |-> FALSE, data |-> IdxEmpty]
NetOutcomes(cache) ==
    IF cache.kind = "absent"
    THEN {NetDown} \cup {[ok |-> TRUE, data |-> idx] : idx \in Indexes}
    ELSE {NetDown}

\* an index fetch that goes to the network first and ignores the cache file
fetch_network_first(cache, net) ==
    IF net.ok
    THEN [index |-> net.data, cache |-> JsonFile(net.data), net |-> TRUE, ok |-> TRUE,
          served |-> net.data, urls |-> {IndexUrl}]
    ELSE [index |-> IdxEmpty, cache |-> cache, net |-> TRUE, ok |-> FALSE,
          served |-> IdxEmpty, urls |-> {IndexUrl}]

\* fetch_package_index: result of one call, given the cache file and the
\* outcome of the network retrieval.
fetch_package_index(cache, net) ==
    IF cache.kind = "json"
    THEN [index |-> cache.data, cache |-> cache, net |-> FALSE, ok |-> FALSE,
          served |-> IdxEmpty, urls |-> {}]
    ELSE IF cache.kind # "absent"
    THEN [index |-> IdxEmpty, cache |-> cache, net |-> FALSE, ok |-> FALSE,
          served |-> IdxEmpty, urls |-> {}]
    ELSE IF net.ok
    THEN [index |-> net.data, cache |-> JsonFile(net.data), net |-> TRUE, ok |-> TRUE,
          served |-> net.data, urls |-> {IndexUrl}]
    ELSE [index |-> IdxEmpty, cache |-> cache, net |-> TRUE, ok |-> FALSE,
          served |-> IdxEmpty, urls |-> {IndexUrl}]

\* ------------------------------------------------------------- artifacts
PackageJson(name, info) ==
    <<name, Get(info, "version", "1.0.0"), Get(info, "description", ""),
      Get(info, "author", "gopu-inc")>>

InstalledEntry(name, info) ==
    [version |-> Get(info, "version", "1.0.0"),
     path |-> <<"packages", name>>,
     source |-> "github"]

\* a frame of the _install_single call stack: the package being installed
\* and its declared dependencies not yet looked at.  The top frame is inside
\* download_package, waiting for urlopen(main_url); the frames below it are
\* inside the loop over their dependencies.
Frame(name) == [name |-> name, deps |-> <<>>]

\* ------------------------------------------------------------- install
\* the loop over dependencies with its test inverted
NeedsInstallInverted(dep, inst) == dep \in DOMAIN inst

\* the guard of the loop over dependencies
NeedsInstall(dep, inst) == dep \notin DOMAIN inst

\* _install_single without its "already installed" test
EnterNoInstalledCheck(w, name, inst, idx) ==
    LET c == [w EXCEPT !.calls = @ + 1] IN
    IF name \notin DOMAIN idx
    THEN [c EXCEPT !.reported = DOMAIN idx, !.notFound = @ \cup {name}]
    ELSE [c EXCEPT !.stack = Append(@, Frame(name)),
                   !.dirs[name] = Mkdir(@),
                   !.stale = IF w.dirs[name].exists THEN @ \cup {name} ELSE @,
                   !.urls = @ \cup {<<GITHUB_REPO, "packages", name, "main.init">>}]

\* _install_single that says "not found" without listing the index
EnterSilentNotFound(w, name, inst, idx) ==
    LET c == [w EXCEPT !.calls = @ + 1] IN
    IF name \in DOMAIN inst
    THEN c
    ELSE IF name \notin DOMAIN idx
    THEN [c EXCEPT !.notFound = @ \cup {name}]
    ELSE [c EXCEPT !.stack = Append(@, Frame(name)),
                   !.dirs[name] = Mkdir(@),
                   !.stale = IF w.dirs[name].exists THEN @ \cup {name} ELSE @,
                   !.urls = @ \cup {<<GITHUB_REPO, "packages", name, "main.init">>}]

\* _install_single(name) up to the fetch of download_package.  w is the walk:
\* the names still requested, the call stack, the package directories, and
\* what the command has done so far.
Enter(w, name, inst, idx) ==
    LET c == [w EXCEPT !.calls = @ + 1] IN
    IF name \in DOMAIN inst
    THEN c
    ELSE IF name \notin DOMAIN idx
    THEN [c EXCEPT !.reported = DOMAIN idx, !.notFound = @ \cup {name}]
    ELSE [c EXCEPT !.stack = Append(@, Frame(name)),
                   !.dirs[name] = Mkdir(@),
                   !.stale = IF w.dirs[name].exists THEN @ \cup {name} ELSE @,
                   !.urls = @ \cup {<<GITHUB_REPO, "packages", name, "main.init">>}]

\* The code that runs between two artifact fetches: the loop of install over
\* package_names and the loops of _install_single over dependencies, until
\* the next download_package reaches its fetch or the command ends.
RECURSIVE Advance(_, _, _)
Advance(w, inst, idx) ==
    IF w.stack = <<>>
    THEN IF w.queue = <<>>
         THEN w
         ELSE LET e == Enter([w EXCEPT !.queue = Tail(@)], Head(w.queue), inst, idx)
              IN IF e.stack # <<>> THEN e ELSE Advance(e, inst, idx)
    ELSE LET top == w.stack[Len(w.stack)] IN
         IF top.deps = <<>>
         THEN Advance([w EXCEPT !.stack = SubSeq(@, 1, Len(@) - 1)], inst, idx)
         ELSE LET dep == Head(top.deps)
                  rest == [w EXCEPT !.stack[Len(w.stack)].deps = Tail(@)]
              IN IF NeedsInstall(dep, inst)
                 THEN LET e == Enter(rest, dep, inst, idx)
                      IN IF Len(e.stack) > Len(w.stack) THEN e
                         ELSE Advance(e, inst, idx)
                 ELSE Advance(rest, inst, idx)

\* ------------------------------------------------------------- commands
\* The record of a command: what it was given, the state it started from,
\* and what it has done so far.
NewRun(p, kind, args, cfg, fetched, f) ==
    [seq |-> left, kind |-> kind, args |-> args, src |-> "none",
     loaded |-> cfg,
     preInst |-> cfg["installed_packages"], preDirs |-> dirs,
     preFile |-> cfgFile, preCache |-> cacheFile, served |-> f.served,
     fetched |-> fetched, net |-> f.net, ok |-> f.ok, result |-> f.index,
     urls |-> f.urls,
     attempts |-> [n \in Names |-> 0], calls |-> 0,
     succ |-> {}, failed |-> {}, reported |-> {}, notFound |-> {}, stale |-> {}]

NoFetch ==
    [index |-> IdxEmpty, cache |-> cacheFile, net |-> FALSE, ok |-> FALSE,
     served |-> IdxEmpty, urls |-> {}]

CanStart(p) == p \in live /\ pc[p] = "idle" /\ left > 0

Walk(p) ==
    [queue |-> queue[p], stack |-> stack[p], dirs |-> dirs,
     calls |-> run[p].calls, reported |-> run[p].reported,
     notFound |-> run[p].notFound, stale |-> run[p].stale,
     urls |-> run[p].urls]

\* the walk w becomes the state of process p
Resume(p, w, r) ==
    /\ queue' = [queue EXCEPT ![p] = w.queue]
    /\ stack' = [stack EXCEPT ![p] = w.stack]
    /\ dirs' = w.dirs
    /\ pc' = [pc EXCEPT ![p] = IF w.stack = <<>> THEN "idle" ELSE "installing"]
    /\ run' = [run EXCEPT ![p] = [r EXCEPT !.calls = w.calls,
                                           !.reported = w.reported,
                                           !.notFound = w.notFound,
                                           !.stale = w.stale,
                                           !.urls = w.urls]]

\* an install without the "if not index: return" test
InstallIgnoresEmpty(p, names, net) ==
    /\ CanStart(p)
    /\ LET cfg == load_config(cfgFile)
           f == fetch_package_index(cacheFile, net)
           r == NewRun(p, "install", names, cfg, TRUE, f)
           w0 == [queue |-> names, stack |-> <<>>, dirs |-> dirs,
                  calls |-> 0, reported |-> {}, notFound |-> {}, stale |-> {},
                  urls |-> f.urls]
           w == Advance(w0, cfg["installed_packages"], f.index)
       IN /\ config' = [config EXCEPT ![p] = cfg]
          /\ cacheFile' = f.cache
          /\ index' = [index EXCEPT ![p] = f.index]
          /\ Resume(p, w, r)
    /\ left' = left - 1
    /\ UNCHANGED <<cfgFile, live>>

\* main + PackageManager.install: the state is loaded, the index fetched,
\* and the requested names are walked up to the first artifact fetch
Install(p, names, net) ==
    /\ CanStart(p)
    /\ LET cfg == load_config(cfgFile)
           f == fetch_package_index(cacheFile, net)
           r == NewRun(p, "install", names, cfg, TRUE, f)
           w0 == [queue |-> names, stack |-> <<>>, dirs |-> dirs,
                  calls |-> 0, reported |-> {}, notFound |-> {}, stale |-> {},
                  urls |-> f.urls]
           w == IF f.index = IdxEmpty
                THEN [w0 EXCEPT !.queue = <<>>]
                ELSE Advance(w0, cfg["installed_packages"], f.index)
       IN /\ config' = [config EXCEPT ![p] = cfg]
          /\ cacheFile' = f.cache
          /\ index' = [index EXCEPT ![p] = f.index]
          /\ Resume(p, w, r)
    /\ left' = left - 1
    /\ UNCHANGED <<cfgFile, live>>

Top(p) == stack[p][Len(stack[p])]

\* download_package after a successful fetch: the two files written
WritePackage(d, name, info) ==
    WriteFile(WriteFile(d, "main.init", <<GITHUB_REPO, "packages", name, "main.init">>),
              "package.json", PackageJson(name, info))

\* download_package that forgets to record the entry
RecordNothing(cfg, name, info) == cfg

\* download_package: self.config["installed_packages"][package_name] = {...}
RecordInstalled(cfg, name, info) ==
    [cfg EXCEPT !["installed_packages"] = (name :> InstalledEntry(name, info)) @@ @]

\* download_package when urlopen(main_url) succeeds: files written, entry
\* recorded, state saved; then _install_single walks the dependencies.
\* (The model follows the recursion to MaxDepth frames; the code never gets
\* deeper than the index has names.)
FetchOk(p) ==
    /\ pc[p] = "installing" /\ Len(stack[p]) < MaxDepth
    /\ LET name == Top(p).name
           info == index[p][name]
           cfg == RecordInstalled(config[p], name, info)
           w0 == [Walk(p) EXCEPT
                     !.dirs[name] = WritePackage(@, name, info),
                     !.stack[Len(stack[p])].deps = Get(info, "dependencies", <<>>)]
           r == [run[p] EXCEPT !.attempts[name] = @ + 1, !.succ = @ \cup {name}]
       IN /\ config' = [config EXCEPT ![p] = cfg]
          /\ cfgFile' = save_config(cfg)
          /\ Resume(p, Advance(w0, cfg["installed_packages"], index[p]), r)
    /\ UNCHANGED <<cacheFile, live, left, index>>

\* a failed download that makes install give up the rest of the request
FetchFailAborts(p) ==
    /\ pc[p] = "installing"
    /\ LET name == Top(p).name
           w0 == [Walk(p) EXCEPT !.stack = <<>>, !.queue = <<>>]
           r == [run[p] EXCEPT !.attempts[name] = @ + 1, !.failed = @ \cup {name}]
       IN Resume(p, w0, r)
    /\ UNCHANGED <<cfgFile, cacheFile, live, left, config, index>>

\* download_package when urlopen(main_url) raises: return False, and
\* _install_single returns to its caller
FetchFail(p) ==
    /\ pc[p] = "installing"
    /\ LET name == Top(p).name
           w0 == [Walk(p) EXCEPT !.stack = SubSeq(@, 1, Len(@) - 1)]
           r == [run[p] EXCEPT !.attempts[name] = @ + 1, !.failed = @ \cup {name}]
       IN Resume(p, Advance(w0, Installed(p), index[p]), r)
    /\ UNCHANGED <<cfgFile, cacheFile, live, left, config, index>>

\* ------------------------------------------------------------- uninstall
\* uninstall that drops the entry and leaves the directory on disk
uninstall_keep_dir(st, name) ==
    IF name \notin DOMAIN st.cfg["installed_packages"]
    THEN st
    ELSE LET cfg == [st.cfg EXCEPT !["installed_packages"] = Remove(@, name)]
         IN [cfg |-> cfg, dirs |-> st.dirs, file |-> save_config(cfg)]

\* PackageManager.uninstall on the triple (config, directories, state file)
uninstall(st, name) ==
    IF name \notin DOMAIN st.cfg["installed_packages"]
    THEN st
    ELSE LET cfg == [st.cfg EXCEPT !["installed_packages"] = Remove(@, name)]
         IN [cfg |-> cfg,
             dirs |-> [st.dirs EXCEPT ![name] = NoDir],
             file |-> save_config(cfg)]

\* main: for package in args.args: pm.uninstall(package)
RECURSIVE UninstallAll(_, _)
UninstallAll(st, names) ==
    IF names = <<>> THEN st
    ELSE UninstallAll(uninstall(st, Head(names)), Tail(names))

Uninstall(p, names) ==
    /\ CanStart(p)
    /\ LET cfg == load_config(cfgFile)
           st == UninstallAll([cfg |-> cfg, dirs |-> dirs, file |-> cfgFile], names)
       IN /\ config' = [config EXCEPT ![p] = st.cfg]
          /\ dirs' = st.dirs
          /\ cfgFile' = st.file
          /\ run' = [run EXCEPT ![p] = NewRun(p, "uninstall", names, cfg, FALSE, NoFetch)]
    /\ left' = left - 1
    /\ UNCHANGED <<cacheFile, live, pc, index, queue, stack>>

\* ------------------------------------------------------------- create
TemplateMain(name, version) == <<"template", name, version>>
TemplateJson(name, version) == <<name, version, "Package for INITLANG", name>>

\* PackageManager.create_package: main.init is written only when missing,
\* package.json always.
create_package(d, name, version) ==
    LET made == Mkdir(d)
        withMain == IF "main.init" \in DOMAIN made.files THEN made
                    ELSE WriteFile(made, "main.init", TemplateMain(name, version))
    IN WriteFile(withMain, "package.json", TemplateJson(name, version))

Create(p, name) ==
    /\ CanStart(p)
    /\ LET cfg == load_config(cfgFile)
       IN /\ config' = [config EXCEPT ![p] = cfg]
          /\ run' = [run EXCEPT ![p] = NewRun(p, "create", <<name>>, cfg, FALSE, NoFetch)]
    /\ dirs' = [dirs EXCEPT ![name] = create_package(@, name, "1.0.0")]
    /\ left' = left - 1
    /\ UNCHANGED <<cfgFile, cacheFile, live, pc, index, queue, stack>>

\* ------------------------------------------------------------- install-local
LocalEntry(name) ==
    [version |-> "1.0.0", path |-> <<"packages", name>>, source |-> "local"]

\* The paths a user may pass to install-local for the name: "tree" is the
\* source tree LocalTrees[name] somewhere outside PACKAGES_DIR, "self" is
\* PACKAGES_DIR / name itself (the directory create reports to the user).
LocalSources(name) ==
    {"self"} \cup (IF name \in DOMAIN LocalTrees THEN {"tree"} ELSE {})

\* the files under the path
SourceFiles(d, name, src) ==
    IF src = "tree" THEN LocalTrees[name] ELSE d[name].files

\* an install_local that records the entry and copies nothing
install_local_record_only(st, name, src) ==
    LET cfg == [st.cfg EXCEPT !["installed_packages"] =
                   (name :> LocalEntry(name)) @@ @]
    IN [cfg |-> cfg, dirs |-> st.dirs, file |-> save_config(cfg)]

\* PackageManager.install_local on (config, directories, state file); the
\* package name is the last component of the path.  When the path is the
\* target directory itself, rmtree removes the source and copytree raises:
\* main catches the exception and the command ends there.
install_local(st, name, src) ==
    IF "main.init" \notin DOMAIN SourceFiles(st.dirs, name, src)
    THEN st
    ELSE IF src = "self"
    THEN [st EXCEPT !.dirs[name] = NoDir]
    ELSE LET cfg == [st.cfg EXCEPT !["installed_packages"] =
                        (name :> LocalEntry(name)) @@ @]
         IN [cfg |-> cfg,
             dirs |-> [st.dirs EXCEPT ![name] =
                          [exists |-> TRUE, files |-> LocalTrees[name]]],
             file |-> save_config(cfg)]

InstallLocal(p, name, src) ==
    /\ CanStart(p)
    /\ src \in LocalSources(name)
    /\ LET cfg == load_config(cfgFile)
           st == install_local([cfg |-> cfg, dirs |-> dirs, file |-> cfgFile], name, src)
       IN /\ config' = [config EXCEPT ![p] = st.cfg]
          /\ dirs' = st.dirs
          /\ cfgFile' = st.file
          /\ run' = [run EXCEPT ![p] =
                 [NewRun(p, "install-local", <<name>>, cfg, FALSE, NoFetch)
                     EXCEPT !.src = src]]
    /\ left' = left - 1
    /\ UNCHANGED <<cacheFile, live, pc, index, queue, stack>>

\* ------------------------------------------------------------- queries
\* search: the query is a substring of "<name> <description> <keywords>";
\* names here are single letters and the indexes carry no descriptions.
Matches(query, name) == query = name

\* what the command prints of the index it fetched
Shown(kind, args, idx) ==
    CASE kind = "available" -> DOMAIN idx
      [] kind = "search" -> {n \in DOMAIN idx : Matches(args[1], n)}
      [] kind = "info" -> {n \in DOMAIN idx : n = args[1]}

\* list_available / search / info: each fetches the index and prints
Query(p, kind, args, net) ==
    /\ CanStart(p)
    /\ LET cfg == load_config(cfgFile)
           f == fetch_package_index(cacheFile, net)
       IN /\ config' = [config EXCEPT ![p] = cfg]
          /\ cacheFile' = f.cache
          /\ run' = [run EXCEPT ![p] =
                 [NewRun(p, kind, args, cfg, TRUE, f) EXCEPT
                     !.reported = Shown(kind, args, f.index)]]
    /\ left' = left - 1
    /\ UNCHANGED <<cfgFile, dirs, live, pc, index, queue, stack>>

\* update_index that leaves the cache file in place
KeepCache(cache) == cache

\* update_index: if cache_file.exists(): cache_file.unlink()
InvalidateCache(cache) == Absent

\* update_index: the cache file is deleted, then the index is fetched
Update(p, net) ==
    /\ CanStart(p)
    /\ LET cfg == load_config(cfgFile)
           f == fetch_package_index(InvalidateCache(cacheFile), net)
       IN /\ config' = [config EXCEPT ![p] = cfg]
          /\ cacheFile' = f.cache
          /\ run' = [run EXCEPT ![p] = NewRun(p, "update", <<>>, cfg, TRUE, f)]
    /\ left' = left - 1
    /\ UNCHANGED <<cfgFile, dirs, live, pc, index, queue, stack>>

\* ------------------------------------------------------------- specification
IdleRun ==
    [seq |-> 0, kind |-> "none", args |-> <<>>, src |-> "none",
     loaded |-> DefaultConfig,
     preInst |-> <<>>, preDirs |-> [n \in Names |-> NoDir],
     preFile |-> Absent, preCache |-> Absent, served |-> IdxEmpty,
     fetched |-> FALSE, net |-> FALSE, ok |-> FALSE, result |-> IdxEmpty,
     urls |-> {},
     attempts |-> [n \in Names |-> 0], calls |-> 0,
     succ |-> {}, failed |-> {}, reported |-> {}, notFound |-> {}, stale |-> {}]

\* a packages.json a user has written to point at another repository, with
\* a key the program does not know
UserState == UserFile([repository |-> MirrorRepo, theme |-> "dark"])

\* a fresh home directory, or one whose packages.json a user has written or
\* a crash has truncated; the index cache is missing or unreadable
InitDisk ==
    /\ cfgFile \in {Absent, UserState, Corrupt}
    /\ cacheFile \in {Absent, Corrupt}
    /\ dirs = [n \in Names |-> NoDir]

InitProcs ==
    /\ pc = [p \in Procs |-> "idle"]
    /\ config = [p \in Procs |-> DefaultConfig]
    /\ index = [p \in Procs |-> IdxEmpty]
    /\ queue = [p \in Procs |-> <<>>]
    /\ stack = [p \in Procs |-> <<>>]
    /\ run = [p \in Procs |-> IdleRun]

\* one command at a time
Init == InitDisk /\ InitProcs /\ live = {"p1"} /\ left = MaxCmds

\* two invocations of the tool, which may overlap
InitMP == InitDisk /\ InitProcs /\ live = Procs /\ left = 2

Next ==
    \/ \E p \in Procs, names \in Requests, net \in NetOutcomes(cacheFile) :
          Install(p, names, net)
    \/ \E p \in Procs : FetchOk(p)
    \/ \E p \in Procs : FetchFail(p)
    \/ \E p \in Procs, names \in Requests : Uninstall(p, names)
    \/ \E p \in Procs, name \in Names : Create(p, name)
    \/ \E p \in Procs, name \in Names, src \in {"tree", "self"} :
          InstallLocal(p, name, src)
    \/ \E p \in Procs, net \in NetOutcomes(cacheFile) :
          Query(p, "available", <<>>, net)
    \/ \E p \in Procs, q \in Names, net \in NetOutcomes(cacheFile) :
          Query(p, "search", <<q>>, net)
    \/ \E p \in Procs, n \in Names, net \in NetOutcomes(cacheFile) :
          Query(p, "info", <<n>>, net)
    \/ \E p \in Procs, net \in NetOutcomes(Absent) : Update(p, net)

Spec == Init /\ [][Next]_vars

SpecMP == InitMP /\ [][Next]_vars

\* two invocations of install of one package each, which may overlap: each
\* loads the state file when it starts and saves it after every package it
\* installs; the home directory is fresh
FreshDisk ==
    /\ cfgFile = Absent
    /\ cacheFile = Absent
    /\ dirs = [n \in Names |-> NoDir]

InitRace == FreshDisk /\ InitProcs /\ live = Procs /\ left = 2

NextRace ==
    \/ \E p \in Procs, n \in Names, net \in NetOutcomes(cacheFile) :
          Install(p, <<n>>, net)
    \/ \E p \in Procs : FetchOk(p)
    \/ \E p \in Procs : FetchFail(p)

SpecRace == InitRace /\ [][NextRace]_vars

\* ------------------------------------------------------------- properties
Range(s) == {s[i] : i \in DOMAIN s}

Finished(p, kind) == p \in live /\ pc[p] = "idle" /\ run[p].kind = kind

\* the names an index entry declares as dependencies
DepsOf(idx, n) == Range(Get(idx[n], "dependencies", <<>>))

\* the names of the index reachable from the names in S
RECURSIVE Reach(_, _)
Reach(idx, S) ==
    LET more == S \cup UNION {DepsOf(idx, n) \cap DOMAIN idx : n \in S}
    IN IF more = S THEN S ELSE Reach(idx, more)

\* every installed package of the index has its indexed dependencies installed
DepClosed(inst, idx) ==
    \A n \in (DOMAIN inst) \cap (DOMAIN idx) :
        DepsOf(idx, n) \cap DOMAIN idx \subseteq DOMAIN inst

\* the install request [X, Y] of process p: both in the index, every fetch
\* of X failed, the fetch of Y succeeded, X had no directory before
FailedThenOk(p, X, Y) ==
    /\ Finished(p, "install") /\ run[p].args = <<X, Y>>
    /\ {X, Y} \subseteq DOMAIN run[p].result
    /\ X \in run[p].failed /\ X \notin run[p].succ /\ Y \in run[p].succ
    /\ ~run[p].preDirs[X].exists

\* C1: after install [X, Y] where the fetch of X fails and the fetch of Y
\* succeeds, Y is installed, X is not, and no directory of X is on disk.
C1_IsolationOfFailure ==
    \A p \in Procs, X, Y \in Names :
        FailedThenOk(p, X, Y) =>
            /\ Y \in DOMAIN Installed(p)
            /\ X \notin DOMAIN Installed(p)
            /\ ~dirs[X].exists

\* install [A] of a name of a non-empty index, every artifact fetch succeeding
InstalledOne(p, A) ==
    /\ Finished(p, "install") /\ run[p].args = <<A>>
    /\ A \in DOMAIN run[p].result
    /\ run[p].failed = {}

\* C2 as stated: after install [A] with every fetch succeeding, everything
\* reachable from A in the index is installed.
C2_ClosureFromAnyState ==
    \A p \in Procs, A \in Names :
        InstalledOne(p, A) => Reach(run[p].result, {A}) \subseteq DOMAIN Installed(p)

\* C2 amended: the same, when before the call every installed package
\* already had its indexed dependencies installed.
C2_DependencyClosure ==
    \A p \in Procs, A \in Names :
        (InstalledOne(p, A) /\ DepClosed(run[p].preInst, run[p].result))
            => Reach(run[p].result, {A}) \subseteq DOMAIN Installed(p)

C2_Witness ==
    /\ InstalledOne("p1", "B") /\ run["p1"].result = Idx1
    /\ run["p1"].preInst = <<>>
    /\ DOMAIN Installed("p1") = {"A", "B", "C"}

\* C3: a name that is installed when install starts is left alone by the
\* whole command: no fetch of it, its entry and its directory unchanged;
\* and when every requested name is installed nothing changes at all.
C3_Idempotency ==
    \A p \in live :
        run[p].kind = "install" =>
            /\ \A n \in DOMAIN run[p].preInst :
                  /\ run[p].attempts[n] = 0
                  /\ n \in DOMAIN Installed(p)
                  /\ Installed(p)[n] = run[p].preInst[n]
                  /\ dirs[n] = run[p].preDirs[n]
            /\ Range(run[p].args) \subseteq DOMAIN run[p].preInst =>
                  /\ Installed(p) = run[p].preInst
                  /\ dirs = run[p].preDirs
                  /\ cfgFile = run[p].preFile
                  /\ \A n \in Names : run[p].attempts[n] = 0

C3_Witness ==
    /\ Finished("p1", "install")
    /\ run["p1"].result # IdxEmpty
    /\ run["p1"].args = <<"A">>
    /\ "A" \in DOMAIN run["p1"].preInst
    /\ run["p1"].calls = 1

\* C4 as stated: within one install no package is fetched more than once.
C4_AtMostOneFetch ==
    \A p \in Procs, n \in Names :
        run[p].kind = "install" => run[p].attempts[n] <= 1

\* C4 amended: each call of _install_single fetches at most once and a
\* package whose fetch succeeded is never fetched again in the invocation
\* (a package whose fetch failed is fetched again when it is reached again).
C4_NoRefetchAfterSuccess ==
    \A p \in live :
        run[p].kind = "install" =>
            /\ SumOver(run[p].attempts, Names) <= run[p].calls
            /\ pc[p] = "installing" => Top(p).name \notin run[p].succ
            /\ \A n \in run[p].succ \ run[p].failed : run[p].attempts[n] = 1

C4_Witness ==
    \E n \in Names :
        /\ Finished("p1", "install")
        /\ run["p1"].attempts[n] = 2
        /\ n \in run["p1"].failed

\* the two files download_package writes for package n of index idx
FreshFiles(n, idx) ==
    ("main.init" :> <<GITHUB_REPO, "packages", n, "main.init">>)
        @@ ("package.json" :> PackageJson(n, idx[n]))

\* C5: when install succeeds for a package whose directory already existed
\* when download_package started, the directory afterwards holds exactly
\* the two newly written files.
C5_DestructiveReplace ==
    [][\A p \in Procs, n \in Names :
          (/\ run'[p].seq = run[p].seq
           /\ n \in run[p].stale
           /\ n \notin run[p].succ /\ n \in run'[p].succ)
             => dirs'[n].files = FreshFiles(n, index[p])]_vars

\* install [A] on the index with the cycle A -> B -> A, neither installed
\* before, every fetch succeeding, has ended
CycleInstallEnded(p) ==
    /\ Finished(p, "install") /\ run[p].args = <<"A">>
    /\ run[p].result = Idx1
    /\ {"A", "B"} \cap DOMAIN run[p].preInst = {}
    /\ run[p].failed = {}

\* C6 as stated: install [A] on a dependency cycle never terminates.
C6_CycleNeverTerminates == \A p \in Procs : ~CycleInstallEnded(p)

\* C6 amended: no name is ever twice on the _install_single call stack, so
\* the recursion is no deeper than the index has names, and install [A] on
\* the cycle A -> B -> A ends with A and B installed.
C6_CycleTerminates ==
    \A p \in live :
        /\ \A i, j \in 1..Len(stack[p]) : i # j => stack[p][i].name # stack[p][j].name
        /\ Len(stack[p]) <= Cardinality(DOMAIN index[p])
        /\ CycleInstallEnded(p) => {"A", "B"} \subseteq DOMAIN Installed(p)

C6_Witness ==
    /\ CycleInstallEnded("p1")
    /\ run["p1"].succ = {"A", "B", "C"}
    /\ run["p1"].calls = 3

\* C7 as stated: every fetch of the index attempts a network retrieval.
C7_AlwaysNetwork ==
    \A p \in Procs : run[p].fetched => run[p].net

\* the cache file as fetch_package_index found it in the command of p
CacheAtFetch(p) ==
    IF run[p].kind = "update" THEN Absent ELSE run[p].preCache

\* C7 amended: the index fetch attempts a network retrieval exactly when no
\* cache file exists; then, on success, the remote index is returned and
\* written to the cache file; when a cache file exists its mapping is
\* returned and the file is left as it is.
C7_NetworkOnlyWithoutCache ==
    \A p \in live :
        run[p].fetched =>
            /\ run[p].net <=> (CacheAtFetch(p).kind = "absent")
            /\ CacheAtFetch(p).kind = "json" =>
                  /\ run[p].result = CacheAtFetch(p).data
                  /\ cacheFile = CacheAtFetch(p)
            /\ (run[p].net /\ run[p].ok) =>
                  /\ run[p].result = run[p].served
                  /\ cacheFile = JsonFile(run[p].served)
            /\ (run[p].net /\ ~run[p].ok) =>
                  /\ run[p].result = IdxEmpty
                  /\ cacheFile = Absent

C7_Witness ==
    /\ run["p1"].kind = "install" /\ run["p1"].fetched
    /\ run["p1"].preCache = JsonFile(Idx2)
    /\ ~run["p1"].net
    /\ index["p1"] = Idx2

QueryKinds == {"available", "search", "info"}

\* C8: while a well-formed cache file exists, every command other than
\* update leaves it unchanged, and available / search / info / install get
\* exactly its mapping without a network retrieval; update deletes it and
\* its fetch goes to the network.
C8_CacheFallback ==
    [][cacheFile.kind = "json" =>
          /\ (\A p \in live : run'[p].seq = run[p].seq) => cacheFile' = cacheFile
          /\ \A p \in live :
                run'[p].seq # run[p].seq =>
                    IF run'[p].kind = "update"
                    THEN run'[p].net
                    ELSE /\ cacheFile' = cacheFile
                         /\ run'[p].fetched =>
                               /\ ~run'[p].net
                               /\ run'[p].result = cacheFile.data
                         /\ run'[p].kind = "install" => index'[p] = cacheFile.data
                         /\ run'[p].kind \in QueryKinds =>
                               run'[p].reported =
                                   Shown(run'[p].kind, run'[p].args, cacheFile.data)]_vars

C8_Witness ==
    /\ run["p1"].kind = "available"
    /\ run["p1"].preCache = JsonFile(Idx1)
    /\ ~run["p1"].net
    /\ run["p1"].reported = {"A", "B", "C"}
    /\ cacheFile = JsonFile(Idx1)

\* C9: every URL a command requests starts with the repository value of
\* the loaded state.
C9_RepositoryOverride ==
    \A p \in Procs : \A u \in run[p].urls : u[1] = config[p]["repository"]

\* C10: after uninstall, every requested name that was installed has no
\* entry (in memory and in the state file) and no directory; every other
\* entry and directory is as before.
C10_UninstallRemoves ==
    \A p \in live :
        Finished(p, "uninstall") =>
            \A n \in Names :
                IF n \in Range(run[p].args) /\ n \in DOMAIN run[p].preInst
                THEN /\ n \notin DOMAIN Installed(p)
                     /\ cfgFile.kind = "json"
                     /\ n \notin DOMAIN cfgFile.data["installed_packages"]
                     /\ ~dirs[n].exists
                ELSE /\ n \in DOMAIN Installed(p) <=> n \in DOMAIN run[p].preInst
                     /\ n \in DOMAIN Installed(p) => Installed(p)[n] = run[p].preInst[n]
                     /\ dirs[n] = run[p].preDirs[n]

\* A, installed from the repository together with B, which depends on it,
\* has been uninstalled
C10_Witness ==
    /\ Finished("p1", "uninstall") /\ run["p1"].args = <<"A">>
    /\ "A" \in DOMAIN run["p1"].preInst
    /\ run["p1"].preInst["A"].source = "github"
    /\ run["p1"].preDirs["A"].exists
    /\ "B" \in DOMAIN Installed("p1")
    /\ "A" \in DepsOf(Idx1, "B")

\* install [n] of process p has ended, on a non-empty index without n
AbsentRequested(p, n) ==
    /\ Finished(p, "install") /\ run[p].args = <<n>>
    /\ run[p].result # IdxEmpty
    /\ n \notin DOMAIN run[p].result

\* what C11 promises of the request of process p
NotFoundOutcome(p, n) ==
    /\ Installed(p) = run[p].preInst
    /\ cfgFile = run[p].preFile
    /\ dirs = run[p].preDirs
    /\ \A m \in Names : run[p].attempts[m] = 0
    /\ n \in run[p].notFound
    /\ run[p].reported = DOMAIN run[p].result

\* C11 as stated: install of a name absent from a non-empty index leaves
\* the installed map and the directories unchanged, fetches no artifact and
\* reports the names of the index.
C11_NotFoundReporting ==
    \A p \in Procs, n \in Names :
        AbsentRequested(p, n) => NotFoundOutcome(p, n)

\* C11 amended: the same for a name that is not already installed; and in
\* any request, a name found absent from the index is neither fetched nor
\* installed, its directory is untouched, and the index names are reported.
C11_NotFoundUnlessInstalled ==
    \A p \in live :
        /\ \A n \in Names :
              (AbsentRequested(p, n) /\ n \notin DOMAIN run[p].preInst)
                  => NotFoundOutcome(p, n)
        /\ run[p].kind = "install" =>
              \A n \in run[p].notFound :
                  /\ n \notin DOMAIN run[p].result
                  /\ run[p].attempts[n] = 0
                  /\ n \notin DOMAIN Installed(p)
                  /\ dirs[n] = run[p].preDirs[n]
                  /\ run[p].reported = DOMAIN run[p].result

C11_Witness ==
    /\ AbsentRequested("p1", "C")
    /\ run["p1"].result = Idx2
    /\ run["p1"].notFound = {"C"}
    /\ run["p1"].reported = {"A", "B"}

\* load followed by save, on a state file
RoundTrip(file) == save_config(load_config(file))

\* C12: for a well-formed state file, save(load()) applied a second time
\* gives the file content of the first application, and every top-level
\* key of the file keeps its value through load and save; a command that
\* rewrites the state file keeps every key other than installed_packages.
C12_RoundTripStable ==
    /\ cfgFile.kind = "json" =>
          LET once == RoundTrip(cfgFile) IN
              /\ RoundTrip(once) = once
              /\ \A k \in DOMAIN cfgFile.data :
                    k \in DOMAIN once.data /\ once.data[k] = cfgFile.data[k]
    /\ \A p \in live :
          (run[p].kind # "none" /\ run[p].preFile.kind = "json"
             /\ cfgFile # run[p].preFile) =>
              /\ cfgFile.kind = "json"
              /\ \A k \in (DOMAIN run[p].preFile.data) \ {"installed_packages"} :
                    k \in DOMAIN cfgFile.data
                       /\ cfgFile.data[k] = run[p].preFile.data[k]

\* a command has rewritten the state file a user wrote by hand
C12_Witness ==
    /\ run["p1"].preFile = UserState
    /\ RoundTrip(UserState) # UserState
    /\ cfgFile.kind = "json" /\ cfgFile.layout = "indent2"
    /\ cfgFile.data["theme"] = "dark"
    /\ "C" \in DOMAIN cfgFile.data["installed_packages"]

\* C13: when the state file is absent or does not parse, the command
\* starts from exactly the default state and runs as usual.
C13_CorruptStateNotFatal ==
    \A p \in live :
        (run[p].kind # "none" /\ run[p].preFile.kind # "json") =>
            /\ run[p].loaded = DefaultConfig
            /\ run[p].loaded["repository"] = GITHUB_REPO
            /\ run[p].preInst = <<>>

\* an install that started on an unreadable state file has gone on to
\* install a package and has written a well-formed state file
C13_Witness ==
    /\ Finished("p1", "install")
    /\ run["p1"].preFile = Corrupt
    /\ run["p1"].succ # {}
    /\ cfgFile = JsonFile(config["p1"])

\* the names process p has dealt with in its install: installed before,
\* not found, or fetched
Processed(p) ==
    (DOMAIN run[p].preInst) \cup run[p].notFound \cup run[p].succ \cup run[p].failed

\* the names still waiting below the top frame of the call stack of p: the
\* dependencies its callers have not looked at yet, and the rest of the
\* request
Waiting(p) ==
    UNION {Range(stack[p][i].deps) : i \in 1..(Len(stack[p]) - 1)}
        \cup Range(queue[p])

\* C14: a step in which the fetch of a package fails leaves the call stack
\* below that package as it was and pushes at most one name, taken from the
\* waiting sibling dependencies and requested names (never the failed
\* package's own dependencies on its account); and when the install has
\* ended every requested name and every dependency of every downloaded
\* package has been dealt with, whatever failed in between.
C14_FailureIsLocal ==
    [][\A p \in live :
          /\ (pc[p] = "installing" /\ run'[p].seq = run[p].seq
                /\ run'[p].failed # run[p].failed
                /\ run'[p].succ = run[p].succ) =>
                /\ Len(stack'[p]) <= Len(stack[p])
                /\ \A i \in 1..(Len(stack'[p]) - 1) :
                      stack'[p][i].name = stack[p][i].name
                /\ pc'[p] = "installing" =>
                      stack'[p][Len(stack'[p])].name \in Waiting(p)
                /\ Waiting(p) \subseteq Processed(p)' \cup Waiting(p)'
                      \cup (IF pc'[p] = "installing"
                            THEN {stack'[p][Len(stack'[p])].name} ELSE {})
          /\ (Finished(p, "install")' /\ run'[p].result # IdxEmpty) =>
                /\ Range(run'[p].args) \subseteq Processed(p)'
                /\ \A m \in run'[p].succ :
                      DepsOf(run'[p].result, m) \subseteq Processed(p)'
                /\ \A n \in Names :
                      (run'[p].args = <<n>> /\ n \notin run'[p].succ) =>
                          \A m \in Names \ {n} : run'[p].attempts[m] = 0]_vars

\* install [A, C] on Idx1: the fetch of A failed, its dependencies B and C
\* were not walked on its account, and C, requested next, was installed
C14_Witness ==
    /\ Finished("p1", "install") /\ run["p1"].args = <<"A", "C">>
    /\ run["p1"].result = Idx1
    /\ run["p1"].failed = {"A"}
    /\ run["p1"].succ = {"C"}
    /\ run["p1"].attempts["B"] = 0

\* the keys of installed_packages in the state file on disk
PersistedNames ==
    IF cfgFile.kind = "json"
    THEN DOMAIN Get(cfgFile.data, "installed_packages", <<>>)
    ELSE {}

\* C15: whenever an install is about to fetch an artifact (and when it has
\* ended), every package it has installed so far is a key of
\* installed_packages in the state file on disk, with the entry the
\* process holds in memory.
C15_ImmediateDurability ==
    \A p \in live :
        run[p].kind = "install" =>
            \A n \in run[p].succ :
                /\ n \in PersistedNames
                /\ cfgFile.data["installed_packages"][n] = Installed(p)[n]

\* A is installed and on disk while the fetch of its dependency B is pending
C15_Witness ==
    /\ pc["p1"] = "installing"
    /\ Top("p1").name = "B"
    /\ run["p1"].succ = {"A"}
    /\ "A" \in PersistedNames
    /\ "B" \notin PersistedNames

\* installed_packages as the state file on disk holds it
Persisted ==
    IF cfgFile.kind = "json"
    THEN Get(cfgFile.data, "installed_packages", <<>>)
    ELSE <<>>

\* the entry of n is on disk before and after the step, and differs
Replaced(n) ==
    /\ n \in DOMAIN Persisted /\ n \in DOMAIN Persisted'
    /\ Persisted'[n] # Persisted[n]

\* C16 as stated: no command replaces or changes an entry that exists; an
\* entry changes only by being removed by uninstall and created again.
C16_EntryNeverReplaced ==
    [][\A n \in Names : ~Replaced(n)]_vars

\* C16 amended: install never replaces or changes an existing entry and
\* creates entries only for absent names; uninstall only removes entries
\* of the names it is given; install-local with main.init writes the
\* local entry of its name whether or not one exists, replacing it, and
\* touches no other entry; no other command changes the map.
C16_EntryLifecycle ==
    [][\A p \in live :
          run'[p] # run[p] =>
              \A n \in Names :
                  /\ Replaced(n) =>
                        /\ run'[p].kind = "install-local"
                        /\ run'[p].args = <<n>>
                        /\ Persisted'[n] = LocalEntry(n)
                  /\ (n \in DOMAIN Persisted /\ n \notin DOMAIN Persisted') =>
                        /\ run'[p].kind = "uninstall"
                        /\ n \in Range(run'[p].args)
                  /\ (n \notin DOMAIN Persisted /\ n \in DOMAIN Persisted') =>
                        \/ /\ run'[p].kind = "install"
                           /\ n \in run'[p].succ \ run[p].succ
                        \/ /\ run'[p].kind = "install-local"
                           /\ run'[p].args = <<n>>]_vars

\* C, installed from the repository, has had its entry replaced by
\* install-local without an uninstall in between
C16_Witness ==
    /\ Finished("p1", "install-local") /\ run["p1"].args = <<"C">>
    /\ "C" \in DOMAIN run["p1"].preInst
    /\ run["p1"].preInst["C"].source = "github"
    /\ "C" \in DOMAIN Persisted
    /\ Persisted["C"].source = "local"

\* install-local of process p has ended; n is the name of its source path
LocalEnded(p, n) ==
    Finished(p, "install-local") /\ run[p].args = <<n>>

\* the source path held main.init when the command started
HadMain(p, n) ==
    "main.init" \in DOMAIN SourceFiles(run[p].preDirs, n, run[p].src)

\* C17: install-local of a source directory with main.init records the
\* local entry of its name, in memory and on disk, fetches nothing, and
\* changes no other entry or directory; without main.init it changes
\* neither the installed map nor the directories.
C17_LocalInstallLeaf ==
    \A p \in live, n \in Names :
        LocalEnded(p, n) =>
            /\ ~run[p].fetched /\ run[p].urls = {}
            /\ \A m \in Names : run[p].attempts[m] = 0
            /\ cacheFile = run[p].preCache
            /\ IF HadMain(p, n)
               THEN /\ Installed(p) = (n :> LocalEntry(n)) @@ run[p].preInst
                    /\ Persisted = Installed(p)
                    /\ \A m \in Names \ {n} : dirs[m] = run[p].preDirs[m]
               ELSE /\ Installed(p) = run[p].preInst
                    /\ cfgFile = run[p].preFile
                    /\ dirs = run[p].preDirs

\* C18: every write of the state file leaves on disk exactly the in-memory
\* config of the process that wrote it, whatever the file held before and
\* whatever the other process holds; so after two overlapping installs the
\* persisted map is that of the process that saved last.
C18_LastWriterWins ==
    [][cfgFile' # cfgFile =>
          \E p \in live :
              /\ run'[p] # run[p]
              /\ cfgFile' = JsonFile(config'[p])
              /\ Persisted' = Installed(p)'
              /\ \A q \in live \ {p} : config'[q] = config[q]]_vars

\* two overlapping installs, of A and of B, have both ended: both packages
\* are on disk, and the entry of A, saved first, is lost
C18_Witness ==
    /\ Finished("p1", "install") /\ Finished("p2", "install")
    /\ run["p1"].succ = {"A"} /\ run["p2"].succ = {"B"}
    /\ run["p2"].preInst = <<>>
    /\ "A" \in DOMAIN Installed("p1")
    /\ Persisted = Installed("p2")
    /\ DOMAIN Persisted = {"B"}
    /\ "main.init" \in DOMAIN dirs["A"].files

\* C19: when no command is running, every name recorded in the state
\* file has a package directory that contains main.init.
C19_RecordImpliesFiles ==
    (\A p \in live : pc[p] = "idle") =>
        \A n \in DOMAIN Persisted :
            dirs[n].exists /\ "main.init" \in DOMAIN dirs[n].files

\* C20: an install whose index fetch gave the empty index (the network
\* failed with no cache file, the cache file is unreadable, or the index
\* served or cached is empty) looks at none of the requested names: no
\* artifact fetch, no directory created, the installed map and the state
\* file unchanged; and the first two cases do give the empty index.
C20_EmptyIndexAborts ==
    \A p \in live :
        run[p].kind = "install" =>
            /\ (run[p].preCache.kind = "corrupt" \/ (run[p].net /\ ~run[p].ok))
                  => run[p].result = IdxEmpty
            /\ run[p].result = IdxEmpty =>
                  /\ pc[p] = "idle"
                  /\ run[p].calls = 0 /\ run[p].notFound = {}
                  /\ \A n \in Names : run[p].attempts[n] = 0
                  /\ dirs = run[p].preDirs
                  /\ Installed(p) = run[p].preInst
                  /\ cfgFile = run[p].preFile

\* install [A, B] with an unreadable cache file has ended without looking
\* at A or B
C20_Witness ==
    /\ Finished("p1", "install") /\ run["p1"].args = <<"A", "B">>
    /\ run["p1"].preCache = Corrupt
    /\ ~run["p1"].net
    /\ run["p1"].result = IdxEmpty
    /\ run["p1"].calls = 0

====
